---- MODULE Spec2Model ----
(***************************************************************************)
(* A model of demazure.py: words of adjacent transpositions in S_n, the    *)
(* length-graded element cache kept in S_n.sqlite (tables Lengths and      *)
(* Words), the Demazure product and the subword analysis built on them.    *)
(***************************************************************************)
EXTENDS Integers, Sequences, FiniteSets, TLC

\* ------------------------------------------------------------------ bounds
\* largest ambient size n handed to create_element_cache
MaxN == 3
\* number of create_element_cache calls followed in one behaviour
MaxCalls == 2
\* longest word handed to demazure_product
MaxWordLen == 2
\* longest of the three words u, v, w whose products are nested
MaxFactorLen == 1
\* longest word handed to the subword analysis
MaxSubwordLen == 3
\* longest word whose fold in demazure_product is followed pass by pass
MaxFoldLen == 3
\* number of sizes cached by create_element_cache before that word is handed
\* to demazure_product
MaxCaches == 1

\* ------------------------------------------------------- python primitives
\* string.ascii_lowercase, a string being a sequence of one-character strings
ascii_lowercase ==
  << "a", "b", "c", "d", "e", "f", "g", "h", "i", "j", "k", "l", "m",
     "n", "o", "p", "q", "r", "s", "t", "u", "v", "w", "x", "y", "z" >>

\* the decimal digits used by str() and int()
Digits == << "0", "1", "2", "3", "4", "5", "6", "7", "8", "9" >>

\* the default value of the optional parameter n
None == -1

\* List items that are not integers: the empty list and the element string
\* that demazure_product returns side by side for an empty word.
PyEmptyList == -2
PyString == -3

IsInt(item) == item \notin {PyEmptyList, PyString}

Range(s) == {s[k] : k \in 1..Len(s)}

RECURSIVE SeqMax(_)
SeqMax(s) ==
  IF Len(s) = 1 THEN s[1]
  ELSE LET m == SeqMax(Tail(s)) IN IF s[1] > m THEN s[1] ELSE m

\* str(j) for a non-negative integer below 100
str(j) == IF j < 10 THEN << Digits[j + 1] >>
          ELSE << Digits[(j \div 10) + 1], Digits[(j % 10) + 1] >>

DigitValue(c) == CHOOSE d \in 0..9 : Digits[d + 1] = c

\* int(token) for a token of decimal digits
RECURSIVE int(_)
int(token) ==
  IF Len(token) = 1 THEN DigitValue(token[1])
  ELSE 10 * int(SubSeq(token, 1, Len(token) - 1)) + DigitValue(token[Len(token)])

\* text.split(","): the tokens between the commas ("" splits to [""])
RECURSIVE split(_)
split(text) ==
  IF \A k \in 1..Len(text) : text[k] # ","
  THEN << text >>
  ELSE LET c == CHOOSE k \in 1..Len(text) :
                  text[k] = "," /\ \A j \in 1..(k - 1) : text[j] # ","
       IN << SubSeq(text, 1, c - 1) >> \o split(SubSeq(text, c + 1, Len(text)))

\* str_join: the concatenation of a list of strings
RECURSIVE str_join(_)
str_join(separated) ==
  IF separated = << >> THEN << >>
  ELSE separated[1] \o str_join(Tail(separated))

\* identify_n: one more than the largest generator, 1 for the empty word
identify_n_raises(word) == \E k \in 1..Len(word) : ~IsInt(word[k])

identify_n(word) == IF word = << >> THEN 1 ELSE SeqMax(word) + 1

\* ------------------------------------------------------- standard_product
Swap(element, i) ==
  [k \in 1..Len(element) |->
     IF k = i THEN element[i + 1] ELSE IF k = i + 1 THEN element[i] ELSE element[k]]

\* the loop of standard_product over to_apply = word reversed: word[k] first
RECURSIVE ApplyReversed(_, _, _)
ApplyReversed(element, word, k) ==
  IF k = 0 THEN element
  ELSE ApplyReversed(IF word[k] = 0 THEN element ELSE Swap(element, word[k]),
                     word, k - 1)

\* the exception standard_product(word, n) raises, "none" when it returns
RECURSIVE RaisesFrom(_, _, _)
RaisesFrom(word, n, k) ==
  IF k = 0 THEN "none"
  ELSE IF ~IsInt(word[k]) THEN "TypeError"
  ELSE IF word[k] < 0 \/ word[k] >= n THEN "ValueError"
  ELSE RaisesFrom(word, n, k - 1)

standard_product_raises(word, n) ==
  IF n = None /\ identify_n_raises(word) THEN "TypeError"
  ELSE RaisesFrom(word, IF n = None THEN identify_n(word) ELSE n, Len(word))

standard_product(word, n) ==
  LET m == IF n = None THEN identify_n(word) ELSE n
  IN ApplyReversed(SubSeq(ascii_lowercase, 1, m), word, Len(word))

\* ------------------------------------------------------------ the database
\* sum(range(n - 1)): one layer short
dim_OneShort(n) == ((n - 1) * (n - 2)) \div 2

\* sum(range(n))
dim(n) == (n * (n - 1)) \div 2

\* An INSERT into Lengths (PRIMARY KEY element): the row is appended unless
\* the key is taken, which raises sqlite3.IntegrityError.
LengthsConflict(L, element) == \E k \in 1..Len(L) : L[k].element = element

InsertLengths(L, n, element, length) ==
  IF LengthsConflict(L, element) THEN L
  ELSE Append(L, [element |-> element, n_value |-> n, length |-> length])

\* An INSERT into Words (PRIMARY KEY (word, n_value)).
WordsConflict(W, n, word) ==
  \E k \in 1..Len(W) : W[k].word = word /\ W[k].n_value = n

\* a Words table keyed by (element, n_value): one witness for each element
InsertWords_OnePerElement(W, n, element, word) ==
  IF \E k \in 1..Len(W) : W[k].element = element /\ W[k].n_value = n THEN W
  ELSE Append(W, [element |-> element, n_value |-> n, word |-> word])

InsertWords(W, n, element, word) ==
  IF WordsConflict(W, n, word) THEN W
  ELSE Append(W, [element |-> element, n_value |-> n, word |-> word])

\* the column of the rows, in their order
Column(rows, name) == [k \in 1..Len(rows) |-> rows[k][name]]

\* SELECT element FROM Lengths WHERE n_value = n AND length = length
SelectElements(L, n, length) ==
  Column(SelectSeq(L, LAMBDA row : row.n_value = n /\ row.length = length),
         "element")

\* SELECT word FROM Words WHERE n_value = n AND element = element
SelectWords(W, n, element) ==
  Column(SelectSeq(W, LAMBDA row : row.n_value = n /\ row.element = element),
         "word")

\* SELECT length FROM Lengths WHERE element = element (rows, in order)
SelectLength(L, element) ==
  Column(SelectSeq(L, LAMBDA row : row.element = element), "length")

\* SELECT length FROM Lengths WHERE n_value = n AND element = element
SelectLengthIn(L, n, element) ==
  Column(SelectSeq(L, LAMBDA row : row.n_value = n /\ row.element = element),
         "length")

\* the stored text of a word parsed back into a list of generators
ParseWord(text) ==
  LET tokens == split(text)
  IN IF tokens = << << >> >> THEN << >>
     ELSE [k \in 1..Len(tokens) |-> int(tokens[k])]

\* the text stored for word + [i]
WordText(word, i) ==
  str_join([k \in 1..Len(word) |-> str(word[k]) \o << "," >>] \o << str(i) >>)

\* ------------------------------------------------------------------ state
VARIABLES
  tables,    \* TRUE once CREATE TABLE IF NOT EXISTS has run on S_n.sqlite
  Lengths,   \* the rows of table Lengths, in rowid order
  Words,     \* the rows of table Words, in rowid order
  pc,        \* the position of the running create_element_cache call
  frame,     \* its local variables
  ret,       \* the last call that returned and what it returned
  returns,   \* the create_element_cache calls returned so far, in order
  out        \* the observed call of the analysis functions and its outcome

vars == << tables, Lengths, Words, pc, frame, ret, returns, out >>

NoFrame ==
  [n |-> 0, length |-> 0, check |-> << >>, build |-> << >>, b |-> 0,
   old_words |-> << >>, w |-> 0, word |-> << >>, i |-> 0]

NoReturn == [op |-> "none", n |-> 0, value |-> "none"]

NoOut == [op |-> "none", args |-> << >>, raises |-> "none", value |-> << >>]

Init ==
  /\ tables = FALSE
  /\ Lengths = << >>
  /\ Words = << >>
  /\ pc = "idle"
  /\ frame = NoFrame
  /\ ret = NoReturn
  /\ returns = << >>
  /\ out = NoOut

\* ------------------------------------------------- create_element_cache
\* the largest n create_element_cache accepts
MaxSupported == 26

\* the exception the argument checks raise, "none" when they pass
create_element_cache_raises(n) ==
  IF n < 1 THEN "ValueError"
  ELSE IF n > MaxSupported THEN "NotImplementedError"
  ELSE "none"

\* the arrangement of the identity of S_n
Identity(n) == SubSeq(ascii_lowercase, 1, n)

\* "initialize tables": both INSERTs run in one transaction, which is rolled
\* back when either raises sqlite3.IntegrityError
\* an initialisation whose IntegrityError is never raised
InitConflict_Never(L, W, n) == FALSE

InitConflict(L, W, n) ==
  LengthsConflict(L, Identity(n)) \/ WordsConflict(W, n, << >>)

\* an inner loop that does not consult the previous layer
Skipped_Nothing(check, new_element) == FALSE

\* the elements whose discovery the inner loop skips
Skipped(check, new_element) == new_element \in Range(check)

\* a layer numbered one too far
NewLength_OffByOne(length) == length + 2

\* the length recorded for an element discovered from layer length
NewLength(length) == length + 1

\* the database as the connection sees it
CurrentDb == [tables |-> tables, Lengths |-> Lengths, Words |-> Words]

\* the two INSERTs for the word + [i] found to give new_element
Discover(db, n, length, word, i, new_element) ==
  [db EXCEPT
     !.Lengths = InsertLengths(db.Lengths, n, new_element, NewLength(length)),
     !.Words = InsertWords(db.Words, n, new_element, WordText(word, i))]

\* the body of "for i in range(1,n)": word + [i] is evaluated and, unless
\* its element is in the previous layer, offered to Lengths and to Words
GenBodyFor(db, n, length, check, word, i, new_element) ==
  IF Skipped(check, new_element) THEN db
  ELSE Discover(db, n, length, word, i, new_element)

GenBody(db, n, length, check, word, i) ==
  GenBodyFor(db, n, length, check, word, i,
             standard_product(Append(word, i), n))

Returned(op, n, value) == [op |-> op, n |-> n, value |-> value]

\* create_element_cache(n) up to the first loop: argument checks, CREATE
\* TABLE IF NOT EXISTS, the identity's two rows
Call(n) ==
  /\ pc = "idle"
  /\ UNCHANGED out
  /\ Len(returns) < MaxCalls
  /\ IF create_element_cache_raises(n) # "none"
     THEN /\ ret' = Returned("create_element_cache", n, create_element_cache_raises(n))
          /\ returns' = Append(returns, ret')
          /\ UNCHANGED << tables, Lengths, Words, pc, frame >>
     ELSE /\ tables' = TRUE
          /\ IF InitConflict(Lengths, Words, n)
             THEN /\ ret' = Returned("create_element_cache", n, "False")
                  /\ returns' = Append(returns, ret')
                  /\ UNCHANGED << Lengths, Words, pc, frame >>
             ELSE /\ Lengths' = InsertLengths(Lengths, n, Identity(n), 0)
                  /\ Words' = InsertWords(Words, n, Identity(n), << >>)
                  /\ pc' = "for_length"
                  /\ frame' = [NoFrame EXCEPT !.n = n]
                  /\ UNCHANGED << ret, returns >>

\* "for length in range(dim)": the two SELECTs that open a layer
ForLength ==
  /\ pc = "for_length"
  /\ UNCHANGED out
  /\ frame.length < dim(frame.n)
  /\ frame' = [frame EXCEPT
                 !.check = SelectElements(Lengths, frame.n, frame.length - 1),
                 !.build = SelectElements(Lengths, frame.n, frame.length),
                 !.b = 1]
  /\ pc' = "for_old_element"
  /\ UNCHANGED << tables, Lengths, Words, ret, returns >>

\* the loop over the layers is exhausted: return True
ReturnTrue ==
  /\ pc = "for_length"
  /\ UNCHANGED out
  /\ frame.length >= dim(frame.n)
  /\ ret' = Returned("create_element_cache", frame.n, "True")
  /\ returns' = Append(returns, ret')
  /\ pc' = "idle"
  /\ frame' = NoFrame
  /\ UNCHANGED << tables, Lengths, Words >>

\* "for old_element in build": the SELECT of its words, or the next layer
ForOldElement ==
  /\ pc = "for_old_element"
  /\ UNCHANGED out
  /\ IF frame.b > Len(frame.build)
     THEN /\ frame' = [frame EXCEPT !.length = frame.length + 1]
          /\ pc' = "for_length"
     ELSE /\ frame' = [frame EXCEPT
                         !.old_words = SelectWords(Words, frame.n, frame.build[frame.b]),
                         !.w = 1]
          /\ pc' = "for_word"
  /\ UNCHANGED << tables, Lengths, Words, ret, returns >>

\* "for word in old_words": the word is parsed, or the next old_element
ForWord ==
  /\ pc = "for_word"
  /\ UNCHANGED out
  /\ IF frame.w > Len(frame.old_words)
     THEN /\ frame' = [frame EXCEPT !.b = frame.b + 1]
          /\ pc' = "for_old_element"
     ELSE /\ frame' = [frame EXCEPT
                         !.word = ParseWord(frame.old_words[frame.w]),
                         !.i = 1]
          /\ pc' = "for_i"
  /\ UNCHANGED << tables, Lengths, Words, ret, returns >>

\* "for i in range(1,n)": one pass of the body, or the next word
ForI ==
  /\ pc = "for_i"
  /\ UNCHANGED out
  /\ IF frame.i >= frame.n
     THEN /\ frame' = [frame EXCEPT !.w = frame.w + 1]
          /\ pc' = "for_word"
          /\ UNCHANGED << Lengths, Words >>
     ELSE /\ Lengths' = GenBody(CurrentDb, frame.n, frame.length, frame.check,
                                frame.word, frame.i).Lengths
          /\ Words' = GenBody(CurrentDb, frame.n, frame.length, frame.check,
                              frame.word, frame.i).Words
          /\ frame' = [frame EXCEPT !.i = frame.i + 1]
          /\ pc' = "for_i"
  /\ UNCHANGED << tables, ret, returns >>

Next ==
  \/ \E n \in 0..MaxN : Call(n)
  \/ ForLength
  \/ ReturnTrue
  \/ ForOldElement
  \/ ForWord
  \/ ForI

Spec == Init /\ [][Next]_vars

\* ---------------------------------- create_element_cache as a single call
\* The loops of create_element_cache run to their end, for the callers that
\* wait for the cache: the same body, GenBody, in the same order.
RECURSIVE LoopI(_, _, _, _, _, _)
LoopI(db, n, length, check, word, i) ==
  IF i >= n THEN db
  ELSE LoopI(GenBody(db, n, length, check, word, i),
             n, length, check, word, i + 1)

RECURSIVE LoopWord(_, _, _, _, _, _)
LoopWord(db, n, length, check, old_words, w) ==
  IF w > Len(old_words) THEN db
  ELSE LoopWord(LoopI(db, n, length, check, ParseWord(old_words[w]), 1),
                n, length, check, old_words, w + 1)

RECURSIVE LoopOldElement(_, _, _, _, _, _)
LoopOldElement(db, n, length, check, build, b) ==
  IF b > Len(build) THEN db
  ELSE LoopOldElement(LoopWord(db, n, length, check,
                               SelectWords(db.Words, n, build[b]), 1),
                      n, length, check, build, b + 1)

RECURSIVE LoopLength(_, _, _)
LoopLength(db, n, length) ==
  IF length >= dim(n) THEN db
  ELSE LoopLength(LoopOldElement(db, n, length,
                                 SelectElements(db.Lengths, n, length - 1),
                                 SelectElements(db.Lengths, n, length), 1),
                  n, length + 1)

\* a call that raised, and a call that returned, with the database it left
Raise(db, exception) == [db |-> db, raises |-> exception, value |-> << >>]

Return(db, value) == [db |-> db, raises |-> "none", value |-> value]

\* the database after CREATE TABLE IF NOT EXISTS and the identity's two rows
Initialized(db, n) ==
  [tables |-> TRUE,
   Lengths |-> InsertLengths(db.Lengths, n, Identity(n), 0),
   Words |-> InsertWords(db.Words, n, Identity(n), << >>)]

\* create_element_cache(n) on the database db: the database it leaves, the
\* exception it raises ("none" when it returns) and the value it returns
create_element_cache(db, n) ==
  IF create_element_cache_raises(n) # "none"
  THEN Raise(db, create_element_cache_raises(n))
  ELSE IF InitConflict(db.Lengths, db.Words, n)
  THEN Return([db EXCEPT !.tables = TRUE], "False")
  ELSE Return(LoopLength(Initialized(db, n), n, 0), "True")

\* ------------------------------------------------------- demazure_product
\* "while (word[start] == 0 and start < len(word)-1): start += 1", start
\* counted from 1 here
RECURSIVE SkipZeros(_, _)
SkipZeros(word, start) ==
  IF word[start] = 0 /\ start < Len(word) THEN SkipZeros(word, start + 1)
  ELSE start

\* a seed that drops a generator 0
Seed_DropZero(word, start) ==
  IF word[start] = 0 THEN << >> ELSE << word[start] >>

\* product_word = [word[start]]
Seed(word, start) == << word[start] >>

\* a comparison that also appends when the length stays the same
Longer_OrEqual(old_length, new_length) == old_length <= new_length

\* "if old_length < new_length": the word the pass of the fold leaves
Longer(old_length, new_length) == old_length < new_length

Kept(product_word, new_word, old_length, new_length) ==
  IF Longer(old_length, new_length) THEN new_word ELSE product_word

\* the outcome of the fold: the exception raised or the word returned
Raised(exception) == [raises |-> exception, value |-> << >>]

\* "for i in word[(start+1):]": the generators of rest are folded one by one
\* into product_word; a pass evaluates product_word and looks its length up,
\* then product_word + [i] and its length, and keeps the longer
RECURSIVE Fold(_, _, _, _)
RECURSIVE FoldOld(_, _, _, _, _)
RECURSIVE FoldNew(_, _, _, _, _, _)
RECURSIVE FoldCompare(_, _, _, _, _, _, _)
Fold(L, n, product_word, rest) ==
  IF rest = << >> THEN [raises |-> "none", value |-> product_word]
  ELSE IF standard_product_raises(product_word, n) # "none"
  THEN Raised(standard_product_raises(product_word, n))
  ELSE FoldOld(L, n, product_word, rest,
               SelectLengthIn(L, n, standard_product(product_word, n)))

FoldOld(L, n, product_word, rest, old_length) ==
  IF old_length = << >> THEN Raised("IndexError")
  ELSE FoldNew(L, n, product_word, rest, old_length[1],
               Append(product_word, rest[1]))

FoldNew(L, n, product_word, rest, old_length, new_word) ==
  IF standard_product_raises(new_word, n) # "none"
  THEN Raised(standard_product_raises(new_word, n))
  ELSE FoldCompare(L, n, product_word, rest, old_length, new_word,
                   SelectLengthIn(L, n, standard_product(new_word, n)))

FoldCompare(L, n, product_word, rest, old_length, new_word, new_length) ==
  IF new_length = << >> THEN Raised("IndexError")
  ELSE Fold(L, n, Kept(product_word, new_word, old_length, new_length[1]),
            Tail(rest))

\* the value returned for the empty word: [[], ascii_lowercase[:n]]
EmptyWordReturn == << PyEmptyList, PyString >>

\* the outcome of the fold, with the database the call leaves
WithDb(db, outcome) ==
  [db |-> db, raises |-> outcome.raises, value |-> outcome.value]

\* the ambient size a call works in
SizeOf(word, n) == IF n = None THEN identify_n(word) ELSE n

\* "if check_existance == []: create_element_cache(n)"
EnsureCache(db, n) ==
  IF SelectElements(db.Lengths, n, 0) = << >>
  THEN create_element_cache(db, n)
  ELSE Return(db, "none")

\* demazure_product from "start = 0" on
ProductFrom(db, word, n, start) ==
  WithDb(db, Fold(db.Lengths, n, Seed(word, start),
                  SubSeq(word, start + 1, Len(word))))

\* demazure_product after the cache check
ProductIn(built, word, n) ==
  IF built.raises # "none" THEN Raise(built.db, built.raises)
  ELSE IF word = << >> THEN Return(built.db, EmptyWordReturn)
  ELSE ProductFrom(built.db, word, n, SkipZeros(word, 1))

\* demazure_product(word, n) on the database db: the database it leaves, the
\* exception it raises ("none" when it returns) and the list it returns
demazure_product(db, word, n) ==
  IF n = None /\ identify_n_raises(word) THEN Raise(db, "TypeError")
  ELSE IF ~db.tables THEN Raise(db, "OperationalError")
  ELSE ProductIn(EnsureCache(db, SizeOf(word, n)), word, SizeOf(word, n))

\* ---------------------------------------------------------------- subword
\* the longest word subword accepts is one generator shorter
WordLengthLimit == 64

Pow2(k) == 2 ^ k

\* subword((word, i)): position j keeps its generator when bit j of i is set
\* and becomes 0 otherwise
subword_raises(word) ==
  IF Len(word) >= WordLengthLimit THEN "NotImplementedError" ELSE "none"

subword(word, i) ==
  [j \in 1..Len(word) |-> ((i \div Pow2(j - 1)) % 2) * word[j]]

\* [(word,i) for i in range(2**len(word))] mapped through subword
Subwords(word) == [k \in 1..Pow2(Len(word)) |-> subword(word, k - 1)]

\* one more product for the list, or the exception that ends the map
Collect(products, product) ==
  IF product.raises # "none" THEN Raise(product.db, product.raises)
  ELSE Return(product.db, Append(products.value, product.value))

\* subwords.map(demazure_product): the products of the subwords from the
\* k-th on, each called without n, one after the other on the database
RECURSIVE MapDemazure(_, _, _)
MapDemazure(products, subwords, k) ==
  IF k > Len(subwords) \/ products.raises # "none" THEN products
  ELSE MapDemazure(
         Collect(products, demazure_product(products.db, subwords[k], None)),
         subwords, k + 1)

\* elements.apply(standard_product, n=n): the first exception it meets
RECURSIVE ApplyRaises(_, _, _)
ApplyRaises(products, n, k) ==
  IF k > Len(products) THEN "none"
  ELSE IF standard_product_raises(products[k], n) # "none"
  THEN standard_product_raises(products[k], n)
  ELSE ApplyRaises(products, n, k + 1)

\* the DataFrame of the subwords joined with their elements
Table(subwords, products, n) ==
  [k \in 1..Len(subwords) |->
     [subwords |-> subwords[k], element |-> standard_product(products[k], n)]]

Tabulate(products, subwords, n) ==
  IF products.raises # "none" THEN products
  ELSE IF ApplyRaises(products.value, n, 1) # "none"
  THEN Raise(products.db, ApplyRaises(products.value, n, 1))
  ELSE Return(products.db, Table(subwords, products.value, n))

\* subword_element_association(word, n): the table of the 2^len(word)
\* subwords and the element of the Demazure product of each
subword_element_association(db, word, n) ==
  IF subword_raises(word) # "none" THEN Raise(db, subword_raises(word))
  ELSE Tabulate(MapDemazure(Return(db, << >>), Subwords(word), 1),
                Subwords(word), SizeOf(word, n))

\* calculate_expression_length: the number of generators other than 0
RECURSIVE calculate_expression_length(_)
calculate_expression_length(word) ==
  IF word = << >> THEN 0
  ELSE (IF word[1] # 0 THEN 1 ELSE 0) + calculate_expression_length(Tail(word))

\* the row of the slice for a subword of the table
SliceRow(row, element_length) ==
  [elements |-> row.subwords,
   reduced |-> calculate_expression_length(row.subwords) = element_length]

\* the rows of subword_table whose element is element, in order, each with
\* its reduced flag
RECURSIVE SliceRows(_, _, _)
SliceRows(subword_table, element, element_length) ==
  IF subword_table = << >> THEN << >>
  ELSE (IF subword_table[1].element = element
        THEN << SliceRow(subword_table[1], element_length) >> ELSE << >>)
       \o SliceRows(Tail(subword_table), element, element_length)

\* process_element(subword_table, element)
process_element(db, subword_table, element) ==
  IF ~db.tables THEN Raised("OperationalError")
  ELSE IF SelectLength(db.Lengths, element) = << >> THEN Raised("ValueError")
  ELSE [raises |-> "none",
        value |-> SliceRows(subword_table, element,
                            SelectLength(db.Lengths, element)[1])]

\* SELECT element FROM Lengths WHERE n_value = n
SelectAllElements(L, n) ==
  Column(SelectSeq(L, LAMBDA row : row.n_value = n), "element")

\* element_subwords.loc[:,"reduced"].all()
AllReduced(rows) == \A k \in 1..Len(rows) : rows[k].reduced

\* the report after one more element: its entry is added unless all of its
\* rows are reduced
AddEntry(report, element, slice) ==
  IF slice.raises # "none" THEN Raised(slice.raises)
  ELSE IF AllReduced(slice.value) THEN report
  ELSE [raises |-> "none",
        value |-> Append(report.value,
                         [element |-> element, rows |-> slice.value])]

\* "for element in elements", from the k-th element on
RECURSIVE ReportFrom(_, _, _, _, _)
ReportFrom(db, all_subwords, elements, k, report) ==
  IF k > Len(elements) \/ report.raises # "none" THEN report
  ELSE ReportFrom(db, all_subwords, elements, k + 1,
                  AddEntry(report, elements[k],
                           process_element(db, all_subwords, elements[k])))

\* non_trivial_subwords after the table of the subwords is there
ReportOn(all_subwords, n) ==
  IF all_subwords.raises # "none" THEN all_subwords
  ELSE WithDb(all_subwords.db,
              ReportFrom(all_subwords.db, all_subwords.value,
                         SelectAllElements(all_subwords.db.Lengths, n), 1,
                         [raises |-> "none", value |-> << >>]))

\* non_trivial_subwords(word, n), the report as a list of entries
non_trivial_subwords(db, word, n) ==
  ReportOn(subword_element_association(db, word, SizeOf(word, n)),
           SizeOf(word, n))

\* --------------------------------------------- the calls of the analysis
\* One call of an analysis function is observed in a behaviour, on whatever
\* database earlier create_element_cache calls have left.

\* the words of at most len generators out of 0..n-1
WordsUpTo(len, n) == UNION {[1..k -> 0..(n - 1)] : k \in 0..len}

\* the values passed for the optional parameter n
SizeArgs == {None} \cup (1..MaxN)

\* the database the call leaves
Leaves(result) ==
  /\ tables' = result.db.tables
  /\ Lengths' = result.db.Lengths
  /\ Words' = result.db.Words

\* the call, what it raised and what it returned
Observed(op, args, result) ==
  /\ Leaves(result)
  /\ out' = [op |-> op, args |-> args, raises |-> result.raises,
             value |-> result.value]

\* create_element_cache(n), run to its return
CreateCache(n) ==
  /\ pc = "idle"
  /\ out = NoOut
  /\ Leaves(create_element_cache(CurrentDb, n))
  /\ UNCHANGED << pc, frame, ret, returns, out >>

\* demazure_product(word, n)
Product(word, n) ==
  /\ pc = "idle"
  /\ out = NoOut
  /\ Observed("demazure_product", [word |-> word, n |-> n],
              demazure_product(CurrentDb, word, n))
  /\ UNCHANGED << pc, frame, ret, returns >>

\* demazure_product(u + demazure_product(v + w, n), n) and then
\* demazure_product(demazure_product(u + v, n) + w, n): the first exception
\* raised, or the two lists returned
ProductWithLeft(u, inner, n) ==
  IF inner.raises # "none" THEN inner
  ELSE demazure_product(inner.db, u \o inner.value, n)

ProductWithRight(inner, w, n) ==
  IF inner.raises # "none" THEN inner
  ELSE demazure_product(inner.db, inner.value \o w, n)

BothProducts(left_value, right) ==
  IF right.raises # "none" THEN right
  ELSE Return(right.db, << left_value, right.value >>)

SecondNesting(left, u, v, w, n) ==
  IF left.raises # "none" THEN left
  ELSE BothProducts(left.value,
                    ProductWithRight(demazure_product(left.db, u \o v, n), w, n))

NestedProducts(db, u, v, w, n) ==
  SecondNesting(ProductWithLeft(u, demazure_product(db, v \o w, n), n),
                u, v, w, n)

Associate(u, v, w, n) ==
  /\ pc = "idle"
  /\ out = NoOut
  /\ Observed("nested_products", [u |-> u, v |-> v, w |-> w, n |-> n],
              NestedProducts(CurrentDb, u, v, w, n))
  /\ UNCHANGED << pc, frame, ret, returns >>

\* subword_element_association(word, n)
Association(word, n) ==
  /\ pc = "idle"
  /\ out = NoOut
  /\ Observed("subword_element_association", [word |-> word, n |-> n],
              subword_element_association(CurrentDb, word, n))
  /\ UNCHANGED << pc, frame, ret, returns >>

\* non_trivial_subwords(word, n)
NonTrivial(word, n) ==
  /\ pc = "idle"
  /\ out = NoOut
  /\ Observed("non_trivial_subwords", [word |-> word, n |-> n],
              non_trivial_subwords(CurrentDb, word, n))
  /\ UNCHANGED << pc, frame, ret, returns >>

NextProduct ==
  \/ \E n \in 1..MaxN : CreateCache(n)
  \/ \E word \in WordsUpTo(MaxWordLen, MaxN), n \in SizeArgs : Product(word, n)

SpecProduct == Init /\ [][NextProduct]_vars

NextAssociate ==
  \/ \E n \in 1..MaxN : CreateCache(n)
  \/ \E u, v, w \in WordsUpTo(MaxFactorLen, MaxN), n \in SizeArgs :
       Associate(u, v, w, n)

SpecAssociate == Init /\ [][NextAssociate]_vars

NextSubword ==
  \/ \E n \in 1..MaxN : CreateCache(n)
  \/ \E word \in WordsUpTo(MaxSubwordLen, MaxN), n \in SizeArgs :
       Association(word, n)
  \/ \E word \in WordsUpTo(MaxSubwordLen, MaxN), n \in SizeArgs :
       NonTrivial(word, n)

SpecSubword == Init /\ [][NextSubword]_vars

\* ------------------------------------- demazure_product, one pass at a time
\* The fold of demazure_product taken step by step: the call up to the seed,
\* then one action for each pass of "for i in word[(start+1):]", then the
\* return.

\* the locals of a running demazure_product call; the locals of the loop body
\* are unbound until the first pass
FoldFrame(word, n, start) ==
  [word |-> word, arg_n |-> n, n |-> SizeOf(word, n),
   product_word |-> Seed(word, start),
   rest |-> SubSeq(word, start + 1, Len(word)),
   i |-> None, old_element |-> << >>, old_length |-> None,
   new_element |-> << >>, new_length |-> None]

\* the call gets as far as the loop: the size is found, the tables exist,
\* the cache is there or built, the word is not empty
EntersFold(db, word, n, built) ==
  /\ ~(n = None /\ identify_n_raises(word))
  /\ db.tables
  /\ built.raises = "none"
  /\ word # << >>

\* one pass of the loop body: the exception it raises or the locals it leaves
PassRaised(exception) == [raises |-> exception]

PassCompare(product_word, new_word, old_element, old_length, new_element, new_rows) ==
  IF new_rows = << >> THEN PassRaised("IndexError")
  ELSE [raises |-> "none",
        old_element |-> old_element, old_length |-> old_length,
        new_element |-> new_element, new_length |-> new_rows[1],
        product_word |-> Kept(product_word, new_word, old_length, new_rows[1])]

PassNewElement(L, n, product_word, new_word, old_element, old_length, new_element) ==
  PassCompare(product_word, new_word, old_element, old_length, new_element,
              SelectLengthIn(L, n, new_element))

PassNew(L, n, product_word, new_word, old_element, old_rows) ==
  IF old_rows = << >> THEN PassRaised("IndexError")
  ELSE IF standard_product_raises(new_word, n) # "none"
  THEN PassRaised(standard_product_raises(new_word, n))
  ELSE PassNewElement(L, n, product_word, new_word, old_element, old_rows[1],
                      standard_product(new_word, n))

PassOld(L, n, product_word, i, old_element) ==
  PassNew(L, n, product_word, Append(product_word, i), old_element,
          SelectLengthIn(L, n, old_element))

Pass(L, n, product_word, i) ==
  IF standard_product_raises(product_word, n) # "none"
  THEN PassRaised(standard_product_raises(product_word, n))
  ELSE PassOld(L, n, product_word, i, standard_product(product_word, n))

\* demazure_product(word, n) up to "product_word = [word[start]]", or to the
\* exception or the return that comes before it
ProductCallWith(word, n, built) ==
  IF EntersFold(CurrentDb, word, n, built)
  THEN /\ Leaves(built)
       /\ pc' = "for_i"
       /\ frame' = FoldFrame(word, n, SkipZeros(word, 1))
       /\ UNCHANGED << ret, returns, out >>
  ELSE /\ Observed("demazure_product", [word |-> word, n |-> n],
                   demazure_product(CurrentDb, word, n))
       /\ UNCHANGED << pc, frame, ret, returns >>

ProductCall(word, n) ==
  /\ pc = "idle"
  /\ out = NoOut
  /\ ProductCallWith(word, n, EnsureCache(CurrentDb, SizeOf(word, n)))

\* what a pass leaves: the exception ends the call, the locals go on
PassTaken(pass) ==
  IF pass.raises # "none"
  THEN /\ out' = [op |-> "demazure_product",
                  args |-> [word |-> frame.word, n |-> frame.arg_n],
                  raises |-> pass.raises, value |-> << >>]
       /\ pc' = "idle"
       /\ frame' = NoFrame
  ELSE /\ frame' = [frame EXCEPT
                      !.i = frame.rest[1],
                      !.old_element = pass.old_element,
                      !.old_length = pass.old_length,
                      !.new_element = pass.new_element,
                      !.new_length = pass.new_length,
                      !.product_word = pass.product_word,
                      !.rest = Tail(frame.rest)]
       /\ UNCHANGED << pc, out >>

\* "for i in word[(start+1):]": one pass of the loop body
ForGenerator ==
  /\ pc = "for_i"
  /\ frame.rest # << >>
  /\ PassTaken(Pass(Lengths, frame.n, frame.product_word, frame.rest[1]))
  /\ UNCHANGED << tables, Lengths, Words, ret, returns >>

\* the loop is exhausted: "return product_word"
ReturnProduct ==
  /\ pc = "for_i"
  /\ frame.rest = << >>
  /\ out' = [op |-> "demazure_product",
             args |-> [word |-> frame.word, n |-> frame.arg_n],
             raises |-> "none", value |-> frame.product_word]
  /\ pc' = "idle"
  /\ frame' = NoFrame
  /\ UNCHANGED << tables, Lengths, Words, ret, returns >>

\* the sizes Lengths holds rows for
CachedSizes == {Lengths[k].n_value : k \in 1..Len(Lengths)}

\* create_element_cache(n), run to its return, before the call that is
\* followed
CacheBefore(n) ==
  /\ Cardinality(CachedSizes) < MaxCaches
  /\ CreateCache(n)

NextFold ==
  \/ \E n \in 1..MaxN : CacheBefore(n)
  \/ \E word \in WordsUpTo(MaxFoldLen, MaxN), n \in SizeArgs :
       ProductCall(word, n)
  \/ ForGenerator
  \/ ReturnProduct

SpecFold == Init /\ [][NextFold]_vars

\* ------------------------------------------------ notions the claims use
RECURSIVE Factorial(_)
Factorial(n) == IF n <= 1 THEN 1 ELSE n * Factorial(n - 1)

\* every arrangement of the first n symbols
Perms(n) ==
  {e \in [1..n -> Range(Identity(n))] : \A j, k \in 1..n : j # k => e[j] # e[k]}

Reversed(s) == [k \in 1..Len(s) |-> s[Len(s) + 1 - k]]

\* the position of a symbol in ascii_lowercase
Rank(c) == CHOOSE k \in 1..Len(ascii_lowercase) : ascii_lowercase[k] = c

\* the number of inversions of an arrangement
Inversions(e) ==
  Cardinality({p \in (1..Len(e)) \X (1..Len(e)) :
                 p[1] < p[2] /\ Rank(e[p[1]]) > Rank(e[p[2]])})

\* the words of exactly len generators out of 1..n-1
WordsOfLength(n, len) == [1..len -> 1..(n - 1)]

\* the least number of generators of a word that evaluates to e
CoxeterLength(e) ==
  CHOOSE len \in 0..((Len(e) * (Len(e) - 1)) \div 2) :
    /\ \E word \in WordsOfLength(Len(e), len) : standard_product(word, Len(e)) = e
    /\ \A shorter \in 0..(len - 1) :
         \A word \in WordsOfLength(Len(e), shorter) : standard_product(word, Len(e)) # e

\* the rows of each table that belong to n
LengthRows(n) == {k \in 1..Len(Lengths) : Lengths[k].n_value = n}

WordRows(n) == {k \in 1..Len(Words) : Words[k].n_value = n}

\* a create_element_cache(n) call has run through its loop and returned True
Built(n) ==
  \E k \in 1..Len(returns) : returns[k].n = n /\ returns[k].value = "True"

\* the database a sequence of create_element_cache calls, each run to its
\* return, leaves
RECURSIVE AfterCalls(_, _)
AfterCalls(db, rs) ==
  IF rs = << >> THEN db
  ELSE AfterCalls(create_element_cache(db, rs[1].n).db, Tail(rs))

\* Between calls, the loops taken one step at a time have left the database
\* that the calls taken whole leave, and each call returned the same value.
StepsAgreeWithWholeCalls ==
  pc = "idle" =>
    /\ CurrentDb = AfterCalls([tables |-> FALSE, Lengths |-> << >>,
                               Words |-> << >>], returns)
    /\ \A k \in 1..Len(returns) :
         LET whole == create_element_cache(
                        AfterCalls([tables |-> FALSE, Lengths |-> << >>,
                                    Words |-> << >>], SubSeq(returns, 1, k - 1)),
                        returns[k].n)
         IN returns[k].value =
              (IF whole.raises # "none" THEN whole.raises ELSE whole.value)

\* C1: once create_element_cache(n) has completed, Lengths holds for n one row
\* for each of the n! arrangements and no other, the largest length is
\* n(n-1)/2, and the only element of that length is the reversed identity.
C1_CompleteCache ==
  \A n \in 1..MaxN :
    Built(n) =>
      /\ Cardinality(LengthRows(n)) = Factorial(n)
      /\ {Lengths[k].element : k \in LengthRows(n)} = Perms(n)
      /\ \A k \in LengthRows(n) : Lengths[k].length <= (n * (n - 1)) \div 2
      /\ {Lengths[k].element : k \in {j \in LengthRows(n) :
                                       Lengths[j].length = (n * (n - 1)) \div 2}}
           = {Reversed(Identity(n))}

C1_Witness == Built(MaxN) /\ pc = "idle"

\* C2: in every state, the length stored for an element is its Coxeter
\* length: the least length of a word evaluating to it, which is its number
\* of inversions.
C2_TrueLength ==
  \A k \in 1..Len(Lengths) :
    /\ Lengths[k].length = Inversions(Lengths[k].element)
    /\ k = Len(Lengths) => Lengths[k].length = CoxeterLength(Lengths[k].element)

C2_Witness ==
  /\ Built(MaxN)
  /\ \E k \in LengthRows(MaxN) : Lengths[k].length = (MaxN * (MaxN - 1)) \div 2

\* C3: in every state, during a build or after it, each word stored in Words
\* evaluates under standard_product to the element of its row, and has as
\* many generators as the length stored for that element.
C3_WitnessWords ==
  \A k \in 1..Len(Words) :
    LET word == ParseWord(Words[k].word)
    IN /\ standard_product(word, Words[k].n_value) = Words[k].element
       /\ SelectLength(Lengths, Words[k].element) = << Len(word) >>

C3_Witness ==
  /\ pc = "for_i"
  /\ \E k \in WordRows(MaxN) : Len(ParseWord(Words[k].word)) >= 2

\* the returned values of the create_element_cache(n) calls that passed the
\* argument checks, in order
RECURSIVE StatusesOf(_, _)
StatusesOf(rs, n) ==
  IF rs = << >> THEN << >>
  ELSE (IF rs[1].n = n /\ rs[1].value \in {"True", "False"}
        THEN << rs[1].value >> ELSE << >>)
       \o StatusesOf(Tail(rs), n)

\* C4: of the create_element_cache(n) calls made one after the other for the
\* same n, the first returns True and every later one returns False, and a
\* call that returns False leaves every row of Lengths and Words as it was.
C4_SecondCallIsNoOp ==
  /\ [](\A n \in 1..MaxN :
         \A k \in 1..Len(StatusesOf(returns, n)) :
           StatusesOf(returns, n)[k] = (IF k = 1 THEN "True" ELSE "False"))
  /\ [][(returns' # returns /\ ret'.value = "False")
          => (Lengths' = Lengths /\ Words' = Words)]_vars

C4_Witness == StatusesOf(returns, MaxN) = << "True", "False" >>

\* the words of Inversions(e) generators that evaluate to e
ReducedWords(e) ==
  {word \in WordsOfLength(Len(e), Inversions(e)) :
     standard_product(word, Len(e)) = e}

WordRowsOf(e) == {k \in 1..Len(Words) : Words[k].element = e}

C6_Associative ==
  (/\ out.op = "nested_products"
   /\ SizeOf(out.args.u \o out.args.v \o out.args.w, None)
        <= SizeOf(out.args.u \o out.args.v \o out.args.w, out.args.n)
   /\ out.raises # "OperationalError")
  => /\ out.raises = "none"
     /\ LET m == SizeOf(out.args.u \o out.args.v \o out.args.w, out.args.n)
        IN standard_product(out.value[1], m) = standard_product(out.value[2], m)

\* Where neither inner product is taken of the empty word, the two nested
\* products do return words of the same element.
C6_HoldsForNonEmptyInner ==
  (/\ out.op = "nested_products"
   /\ SizeOf(out.args.u \o out.args.v \o out.args.w, None)
        <= SizeOf(out.args.u \o out.args.v \o out.args.w, out.args.n)
   /\ out.args.u \o out.args.v # << >>
   /\ out.args.v \o out.args.w # << >>
   /\ out.raises # "OperationalError")
  => /\ out.raises = "none"
     /\ LET m == SizeOf(out.args.u \o out.args.v \o out.args.w, out.args.n)
        IN standard_product(out.value[1], m) = standard_product(out.value[2], m)

\* the size passed, when one is passed, admits every generator of the word
SizeAdmits(word, n) == SizeOf(word, None) <= SizeOf(word, n)

AllZero(word) == \A k \in 1..Len(word) : word[k] = 0

\* C7 as stated: for a non-empty word of generators 0 only, demazure_product
\* returns the empty word.
C7_ReturnsEmptyWord ==
  (/\ out.op = "demazure_product"
   /\ out.args.word # << >>
   /\ AllZero(out.args.word)
   /\ out.raises = "none")
  => out.value = << >>

\* C7 as amended: for a non-empty word of generators 0 only, demazure_product,
\* when it returns, returns the one-generator word [0], which evaluates to the
\* identity element.
C7_ReturnsSingleZero ==
  (/\ out.op = "demazure_product"
   /\ out.args.word # << >>
   /\ AllZero(out.args.word)
   /\ out.raises = "none")
  => /\ out.value = << 0 >>
     /\ standard_product(out.value, SizeOf(out.args.word, out.args.n))
          = Identity(SizeOf(out.args.word, out.args.n))

C7_Witness ==
  /\ out.op = "demazure_product"
  /\ Len(out.args.word) >= 2
  /\ AllZero(out.args.word)
  /\ out.raises = "none"

\* Lengths holds every arrangement of the first n symbols
CacheComplete(n) == {Lengths[k].element : k \in LengthRows(n)} = Perms(n)

\* C10: demazure_product(word, n), called on any database, one without
\* tables included, builds the cache for n before it looks a length up,
\* raises no database error and leaves the cache for n complete.
C10_BuildsOnFirstUse ==
  (/\ out.op = "demazure_product"
   /\ SizeAdmits(out.args.word, out.args.n))
  => /\ out.raises = "none"
     /\ CacheComplete(SizeOf(out.args.word, out.args.n))

\* On a database whose tables exist the call does build the cache it needs.
C10_HoldsOnceTablesExist ==
  (/\ out.op = "demazure_product"
   /\ SizeAdmits(out.args.word, out.args.n)
   /\ out.raises # "OperationalError")
  => /\ out.raises = "none"
     /\ CacheComplete(SizeOf(out.args.word, out.args.n))

\* C8: for a word of d generators, d = 0 included, the table of
\* subword_element_association has 2^d rows, the row of mask 0 holds the
\* identity of S_n and the row of the mask of all ones holds the word itself
\* (on a database whose tables exist).
C8_TableOfAllMasks ==
  (/\ out.op = "subword_element_association"
   /\ SizeAdmits(out.args.word, out.args.n)
   /\ out.raises # "OperationalError")
  => /\ out.raises = "none"
     /\ Len(out.value) = 2 ^ Len(out.args.word)
     /\ out.value[1].element = Identity(SizeOf(out.args.word, out.args.n))
     /\ out.value[Len(out.value)].subwords = out.args.word

\* For a word of at least one generator the table is as C8 says.
C8_HoldsForNonEmptyWords ==
  (/\ out.op = "subword_element_association"
   /\ out.args.word # << >>
   /\ SizeAdmits(out.args.word, out.args.n)
   /\ out.raises # "OperationalError")
  => /\ out.raises = "none"
     /\ Len(out.value) = 2 ^ Len(out.args.word)
     /\ out.value[1].element = Identity(SizeOf(out.args.word, out.args.n))
     /\ out.value[Len(out.value)].subwords = out.args.word

\* The Demazure product of a word by its definition: a generator is
\* appended when it makes the element longer, lengths counted as inversions.
RECURSIVE DemazureWord(_, _, _)
DemazureWord(product_word, rest, n) ==
  IF rest = << >> THEN product_word
  ELSE DemazureWord(
         IF Inversions(standard_product(Append(product_word, rest[1]), n))
              > Inversions(standard_product(product_word, n))
         THEN Append(product_word, rest[1]) ELSE product_word,
         Tail(rest), n)

DemazureElement(word, n) == standard_product(DemazureWord(<< >>, word, n), n)

\* the words obtained from word by replacing some generators by 0
Maskings(word) ==
  {sub \in [1..Len(word) -> 0..SeqMax(word)] :
     \A k \in 1..Len(word) : sub[k] \in {0, word[k]}}

NonZeros(word) == Cardinality({k \in 1..Len(word) : word[k] # 0})

\* what C9 asks non_trivial_subwords(word, n) to report
ExpectedReport(word, n) ==
  {[element |-> e,
    rows |-> {[elements |-> sub, reduced |-> NonZeros(sub) = Inversions(e)] :
                sub \in {x \in Maskings(word) : DemazureElement(x, n) = e}}] :
     e \in {x \in Perms(n) :
              \E sub \in Maskings(word) :
                DemazureElement(sub, n) = x /\ NonZeros(sub) # Inversions(x)}}

ReportAsSet(report) ==
  {[element |-> report[k].element, rows |-> Range(report[k].rows)] :
     k \in 1..Len(report)}

\* C9: for a word and a size n >= max(word)+1, from any state of the cache,
\* non_trivial_subwords(word, n) reports exactly the elements of S_n reached
\* by a subword whose expression length differs from the element's Coxeter
\* length, each with all the subwords reaching it and their reduced flags
\* (for a word of at least one generator, on a database whose tables exist).
C9_ReportsNonReduced ==
  (/\ out.op = "non_trivial_subwords"
   /\ out.args.word # << >>
   /\ SizeAdmits(out.args.word, out.args.n)
   /\ out.raises # "OperationalError")
  => /\ out.raises = "none"
     /\ ReportAsSet(out.value)
          = ExpectedReport(out.args.word, SizeOf(out.args.word, out.args.n))

\* When the cache for n is there by the time the elements are listed, the
\* report is as C9 says.
C9_HoldsWithCacheForN ==
  (/\ out.op = "non_trivial_subwords"
   /\ out.args.word # << >>
   /\ SizeAdmits(out.args.word, out.args.n)
   /\ CacheComplete(SizeOf(out.args.word, out.args.n))
   /\ out.raises # "OperationalError")
  => /\ out.raises = "none"
     /\ ReportAsSet(out.value)
          = ExpectedReport(out.args.word, SizeOf(out.args.word, out.args.n))

\* The fold taken pass by pass ends as the call taken whole does: the same
\* exception or the same list, on the database the call has left.
FoldAgreesWithWholeCall ==
  (pc = "idle" /\ out.op = "demazure_product") =>
    /\ out.raises = demazure_product(CurrentDb, out.args.word, out.args.n).raises
    /\ out.value = demazure_product(CurrentDb, out.args.word, out.args.n).value

\* the lengths Lengths holds for element under n
CachedLengths(n, element) ==
  {Lengths[k].length :
     k \in {j \in LengthRows(n) : Lengths[j].element = element}}

\* the element the running word of a frame evaluates to
Running(f) == standard_product(f.product_word, f.n)

\* the pass from frame f to frame g appended the generator it consumed
Appended(f, g) == g.product_word = Append(f.product_word, f.rest[1])

\* a pass of the fold has completed in this step
PassCompleted == pc = "for_i" /\ pc' = "for_i" /\ frame' # frame

\* C11: in the fold of demazure_product after the seed, the consumed
\* generator is appended to the running word exactly when the cached length
\* of the candidate element is strictly greater than the cached length of
\* the running element; when it is appended the Coxeter length of the
\* running element grows by exactly one, otherwise the running word and its
\* element are unchanged. So the length of the running element never
\* decreases, a generator 0 is never appended, and no generator after the
\* seed of the running word is 0.
C11_FoldAppendsOnlyLonger ==
  /\ [](pc = "for_i" =>
          \A k \in 2..Len(frame.product_word) : frame.product_word[k] # 0)
  /\ [][PassCompleted =>
          /\ Appended(frame, frame') <=>
               \E old_length \in CachedLengths(frame.n, Running(frame)) :
                 \E new_length \in
                     CachedLengths(frame.n,
                                   standard_product(
                                     Append(frame.product_word, frame.rest[1]),
                                     frame.n)) :
                   old_length < new_length
          /\ Appended(frame, frame') =>
               CoxeterLength(Running(frame')) = CoxeterLength(Running(frame)) + 1
          /\ ~Appended(frame, frame') =>
               /\ frame'.product_word = frame.product_word
               /\ Running(frame') = Running(frame)
          /\ CoxeterLength(Running(frame')) >= CoxeterLength(Running(frame))
          /\ Inversions(Running(frame')) >= Inversions(Running(frame))
          /\ frame.rest[1] = 0 => ~Appended(frame, frame')
          /\ frame'.rest = Tail(frame.rest)]_vars

\* a word without a generator 0 has been folded whole: one generator was
\* appended to the seed and one, which would have shortened the element, was
\* dropped
C11_Witness ==
  /\ pc = "for_i"
  /\ frame.rest = << >>
  /\ frame.i # None
  /\ \A k \in 1..Len(frame.word) : frame.word[k] # 0
  /\ Len(frame.product_word) >= 2
  /\ Len(frame.word) > Len(frame.product_word)
====
